---- MODULE Spec2Model ----
(***************************************************************************)
(* Model of graphite_datadog: the glob utilities of glob_utils.py          *)
(* (_is_graphite_glob, _is_valid_glob, tokenize, glob_to_regex, glob) and   *)
(* the lazily initialised API client of finder.py (DataDogFinder.api).     *)
(*                                                                         *)
(* Strings are sequences of one-character strings: "a.*" is <<"a",".","*">>.*)
(* Python indexes are kept 0-based in the model's data (as the code stores *)
(* them); a Python s[i] is written s[i + 1].                               *)
(***************************************************************************)
EXTENDS Integers, Sequences, FiniteSets, TLC

VARIABLES
    pc,               \* position of the driver of the specification at hand
    pattern,          \* the glob pattern handed to the functions
    valid,            \* result of _is_valid_glob(pattern)
    tokens,           \* list(tokenize(pattern))
    regex,            \* glob_to_regex(pattern)
    glob_components,  \* glob(): glob_pattern.split(".")
    index,            \* glob(): loop index of the enumerate() loop
    globstar,         \* glob(): local globstar, None or <<index>>
    prefix_literals,  \* glob(): local prefix_literals
    suffix_literals,  \* glob(): local suffix_literals
    metric_names,     \* glob(): the candidate names
    consumed,         \* glob(): how many candidates the lazy filter has read
    out,              \* glob(): the names the filter has yielded so far
    api,              \* DataDogFinder._api, None or <<client>>
    lock,             \* DataDogFinder._lock: its holder, or None
    tpc,              \* per thread: position inside the api property
    ret,              \* per thread: the value its last read of api returned
    reads,            \* per thread: completed reads of the api property
    init_calls        \* number of calls of init_api so far

vars == <<pc, pattern, valid, tokens, regex, glob_components, index, globstar,
          prefix_literals, suffix_literals, metric_names, consumed, out,
          api, lock, tpc, ret, reads, init_calls>>

globVars == <<glob_components, index, globstar, prefix_literals,
              suffix_literals, metric_names, consumed, out>>

compileVars == <<valid, tokens, regex>>

apiVars == <<api, lock, tpc, ret, reads, init_calls>>

\* Python's None, for a value that is None or a one-element tuple <<v>>
None == <<>>

(***************************************************************************)
(* Bounds of the model.                                                    *)
(***************************************************************************)
\* longest pattern, in characters, of the compile specification
MaxLen == 3
\* longest candidate name, in characters, the compiled regex is run against
MaxNameLen == 4
\* most pieces (see GlobPieces) joined into a pattern of the prefilter
MaxComponents == 3
\* most dot-separated components of a candidate name of the prefilter
MaxNameComponents == 3
\* number of threads reading DataDogFinder.api
NumThreads == 2
\* reads of the api property per thread
MaxReads == 2

(***************************************************************************)
(* Strings.                                                                *)
(***************************************************************************)
\* the characters patterns are drawn from: two literals, "!" and every
\* character tokenize() treats specially
GlobChars == {"a", "b", "!", ".", "?", "*", "[", "-", "]", "{", ",", "}", "\\"}

\* the characters candidate names are drawn from
NameChars == {"a", "b", "."}

\* ord(c) for the characters that occur in patterns, names and regexes
Ord(c) ==
    CASE c = "!" -> 33 [] c = "$" -> 36 [] c = "(" -> 40 [] c = ")" -> 41
      [] c = "*" -> 42 [] c = "," -> 44 [] c = "-" -> 45 [] c = "." -> 46
      [] c = "?" -> 63 [] c = "[" -> 91 [] c = "\\" -> 92 [] c = "]" -> 93
      [] c = "^" -> 94 [] c = "a" -> 97 [] c = "b" -> 98 [] c = "{" -> 123
      [] c = "|" -> 124 [] c = "}" -> 125

\* all strings over chars of length at most n
StringsUpTo(chars, n) == UNION {[1..k -> chars] : k \in 0..n}

RECURSIVE SplitFrom(_, _, _)
\* str.split(sep) continued: cur is the component being read from position k
SplitFrom(s, k, cur) ==
    IF k > Len(s) THEN <<cur>>
    ELSE IF s[k] = "." THEN <<cur>> \o SplitFrom(s, k + 1, <<>>)
    ELSE SplitFrom(s, k + 1, Append(cur, s[k]))

\* s.split("."): never empty, "" splits into [""]
Split(s) == SplitFrom(s, 1, <<>>)

RECURSIVE Join(_)
\* ".".join(components)
Join(cs) ==
    IF Len(cs) = 0 THEN <<>>
    ELSE IF Len(cs) = 1 THEN cs[1]
    ELSE cs[1] \o <<".">> \o Join(Tail(cs))

(***************************************************************************)
(* _is_graphite_glob: the component does not match ^[^*?{}\[\]]+$           *)
(***************************************************************************)
GRAPHITE_GLOB_CHARS == {"*", "?", "{", "}", "[", "]"}

_is_graphite_glob(metric_component) ==
    ~ (/\ Len(metric_component) >= 1
       /\ \A k \in 1..Len(metric_component) :
              metric_component[k] \notin GRAPHITE_GLOB_CHARS)

(***************************************************************************)
(* _is_valid_glob                                                          *)
(***************************************************************************)
\* a faulty variant: a closing brace never makes the glob invalid
ValidCharNoMismatch(c, depth) ==
    IF c = "{" THEN [depth |-> depth + 1, return_false |-> FALSE]
    ELSE IF c = "}" THEN [depth |-> depth - 1, return_false |-> FALSE]
    ELSE IF c = "." /\ depth > 0 THEN [depth |-> depth, return_false |-> TRUE]
    ELSE [depth |-> depth, return_false |-> FALSE]

\* one iteration of the loop over the characters: the new depth, and whether
\* the iteration ends the function with "return False"
ValidChar(c, depth) ==
    IF c = "{" THEN [depth |-> depth + 1, return_false |-> FALSE]
    ELSE IF c = "}" THEN
        IF depth - 1 < 0 THEN [depth |-> depth - 1, return_false |-> TRUE]
        ELSE [depth |-> depth - 1, return_false |-> FALSE]
    ELSE IF c = "." THEN
        IF depth > 0 THEN [depth |-> depth, return_false |-> TRUE]
        ELSE [depth |-> depth, return_false |-> FALSE]
    ELSE [depth |-> depth, return_false |-> FALSE]

RECURSIVE ValidLoop(_, _, _)
\* the for loop from character k on, then the final "return depth == 0"
ValidLoop(g, k, depth) ==
    IF k > Len(g) THEN depth = 0
    ELSE LET r == ValidChar(g[k], depth)
         IN  IF r.return_false THEN FALSE ELSE ValidLoop(g, k + 1, r.depth)

_is_valid_glob(g) == ValidLoop(g, 1, 0)

(***************************************************************************)
(* tokenize                                                                *)
(*                                                                         *)
(* A token is [type, data, at]: type and data are what the generator       *)
(* yields; at is history the code does not keep, the 0-based positions in  *)
(* the pattern of the characters the token carries (of the metacharacter   *)
(* itself for a structural token).  The scanner state keeps tmp_at beside  *)
(* tmp the same way.                                                       *)
(***************************************************************************)
SPECIAL_CHARS == {".", "?", "*", "[", "-", "]", "{", ",", "}"}

LITERAL == "LITERAL"

\* "token = None": no token is pending
NoToken == "None"

TokenType == {"PATH_SEPARATOR", LITERAL, "WILD_CHAR", "WILD_SEQUENCE",
              "WILD_PATH", "CHAR_SELECT_BEGIN", "CHAR_SELECT_NEGATED_BEGIN",
              "CHAR_SELECT_RANGE_DASH", "CHAR_SELECT_END", "EXPR_SELECT_BEGIN",
              "EXPR_SELECT_SEPARATOR", "EXPR_SELECT_END"}

\* the locals of tokenize() before the loop; out is what has been yielded
TokenizeInit ==
    [i |-> -1, is_escaped |-> FALSE, is_char_select |-> FALSE,
     tmp |-> <<>>, tmp_at |-> <<>>, token |-> NoToken, out |-> <<>>]

\* "if is_escaped:" the character joins tmp; token is left as it is
EscapedStep(s, c) ==
    [s EXCEPT !.tmp = Append(@, c), !.tmp_at = Append(@, s.i),
              !.is_escaped = FALSE]

\* a faulty variant: every literal character starts the buffer again
LiteralStepOverwrite(s, c) ==
    [s EXCEPT !.token = LITERAL, !.tmp = <<c>>, !.tmp_at = <<s.i>>]

\* "elif c not in SPECIAL_CHARS or (c == '-' and not is_char_select):"
LiteralStep(s, c) ==
    LET y == IF s.token # NoToken /\ s.token # LITERAL
             THEN [s EXCEPT !.out = Append(@, [type |-> s.token, data |-> <<>>,
                                               at |-> <<>>]),
                            !.tmp = <<>>, !.tmp_at = <<>>]
             ELSE s
    IN  [y EXCEPT !.token = LITERAL, !.tmp = Append(@, c),
                  !.tmp_at = Append(@, s.i)]

\* "elif token: yield token, tmp; token, tmp = None, ''"
FlushPending(s) ==
    IF s.token # NoToken
    THEN [s EXCEPT !.out = Append(@, [type |-> s.token, data |-> s.tmp,
                                      at |-> s.tmp_at]),
                   !.token = NoToken, !.tmp = <<>>, !.tmp_at = <<>>]
    ELSE s

\* yield of a structural token read at position s.i
Yield(s, type) ==
    [s EXCEPT !.out = Append(@, [type |-> type, data |-> <<>>, at |-> <<s.i>>])]

\* "Special chars handling": s.i is the position of c
SpecialStep(g, s, c) ==
    LET next == IF s.i + 1 < Len(g) THEN g[s.i + 2] ELSE ""
    IN  CASE c = "." -> Yield(s, "PATH_SEPARATOR")
          [] c = "?" -> Yield(s, "WILD_CHAR")
          [] c = "*" ->
                IF next = "*"
                THEN [Yield(s, "WILD_PATH") EXCEPT !.i = s.i + 1]
                ELSE Yield(s, "WILD_SEQUENCE")
          [] c = "[" ->
                IF next = "!"
                THEN [Yield(s, "CHAR_SELECT_NEGATED_BEGIN")
                        EXCEPT !.i = s.i + 1, !.is_char_select = TRUE]
                ELSE [Yield(s, "CHAR_SELECT_BEGIN")
                        EXCEPT !.is_char_select = TRUE]
          [] c = "-" -> Yield(s, "CHAR_SELECT_RANGE_DASH")
          [] c = "]" ->
                [Yield(s, "CHAR_SELECT_END") EXCEPT !.is_char_select = FALSE]
          [] c = "{" -> Yield(s, "EXPR_SELECT_BEGIN")
          [] c = "," -> Yield(s, "EXPR_SELECT_SEPARATOR")
          [] c = "}" -> Yield(s, "EXPR_SELECT_END")

\* one iteration of the while loop: "i += 1; c = glob[i]" and the branches
TokenizeStep(g, s0) ==
    LET s == [s0 EXCEPT !.i = s0.i + 1]
        c == g[s.i + 1]
    IN  IF s.is_escaped THEN EscapedStep(s, c)
        ELSE IF c = "\\" THEN [s EXCEPT !.is_escaped = TRUE]
        ELSE IF c \notin SPECIAL_CHARS \/ (c = "-" /\ ~ s.is_char_select)
             THEN LiteralStep(s, c)
        ELSE SpecialStep(g, FlushPending(s), c)

RECURSIVE TokenizeLoop(_, _)
\* "while i + 1 < len(glob):", then the trailing "if token: yield token, tmp"
TokenizeLoop(g, s) ==
    IF s.i + 1 < Len(g) THEN TokenizeLoop(g, TokenizeStep(g, s))
    ELSE FlushPending(s).out

\* list(tokenize(glob))
tokenize(g) == TokenizeLoop(g, TokenizeInit)

(***************************************************************************)
(* glob_to_regex                                                           *)
(***************************************************************************)
\* the characters re.escape() puts a backslash before (Python 3.7 and later;
\* earlier versions escape every non-alphanumeric, which matches the same)
RE_SPECIAL == {"(", ")", "[", "]", "{", "}", "?", "*", "-", "|", "^", "$",
               "\\", "."}

RECURSIVE re_escape(_)
re_escape(data) ==
    IF Len(data) = 0 THEN <<>>
    ELSE (IF Head(data) \in RE_SPECIAL THEN <<"\\", Head(data)>>
          ELSE <<Head(data)>>) \o re_escape(Tail(data))

\* a faulty variant: a lone "*" compiles like "**"
CompileTokenStarCrossesDot(tok) ==
    CASE tok.type = "PATH_SEPARATOR" -> re_escape(<<".">>)
      [] tok.type = LITERAL -> re_escape(tok.data)
      [] tok.type = "WILD_CHAR" -> <<".">>
      [] tok.type = "WILD_SEQUENCE" -> <<".", "*">>
      [] tok.type = "WILD_PATH" -> <<".", "*">>
      [] tok.type = "CHAR_SELECT_BEGIN" -> <<"[">>
      [] tok.type = "CHAR_SELECT_NEGATED_BEGIN" -> <<"[", "^">>
      [] tok.type = "CHAR_SELECT_RANGE_DASH" -> <<"-">>
      [] tok.type = "CHAR_SELECT_END" -> <<"]">>
      [] tok.type = "EXPR_SELECT_BEGIN" -> <<"(">>
      [] tok.type = "EXPR_SELECT_SEPARATOR" -> <<"|">>
      [] tok.type = "EXPR_SELECT_END" -> <<")">>

\* what one token adds to ans
CompileToken(tok) ==
    CASE tok.type = "PATH_SEPARATOR" -> re_escape(<<".">>)
      [] tok.type = LITERAL -> re_escape(tok.data)
      [] tok.type = "WILD_CHAR" -> <<".">>
      [] tok.type = "WILD_SEQUENCE" -> <<"[", "^", ".", "]", "*">>
      [] tok.type = "WILD_PATH" -> <<".", "*">>
      [] tok.type = "CHAR_SELECT_BEGIN" -> <<"[">>
      [] tok.type = "CHAR_SELECT_NEGATED_BEGIN" -> <<"[", "^">>
      [] tok.type = "CHAR_SELECT_RANGE_DASH" -> <<"-">>
      [] tok.type = "CHAR_SELECT_END" -> <<"]">>
      [] tok.type = "EXPR_SELECT_BEGIN" -> <<"(">>
      [] tok.type = "EXPR_SELECT_SEPARATOR" -> <<"|">>
      [] tok.type = "EXPR_SELECT_END" -> <<")">>

RECURSIVE CompileTokens(_)
\* the for loop over the token stream
CompileTokens(toks) ==
    IF Len(toks) = 0 THEN <<>>
    ELSE CompileToken(Head(toks)) \o CompileTokens(Tail(toks))

glob_to_regex(g) == <<"^">> \o CompileTokens(tokenize(g)) \o <<"$">>

(***************************************************************************)
(* re.compile(regex).match(name): Python's re on the syntax glob_to_regex  *)
(* emits (escapes, ".", character sets, "*" after a set or ".", groups with *)
(* alternation, "^" and "$").  A regex is run by following the set of      *)
(* positions of name a match can have reached.                             *)
(***************************************************************************)
ReError == [ok |-> FALSE, k |-> 0, set |-> {}, closed |-> FALSE]

RECURSIVE ClassItems(_, _, _, _)
\* sre_parse, inside "[": the items from r[k] up to the closing "]".  A "]"
\* that comes first is a literal; "x-y" is a range; "x-]" ends the set
ClassItems(r, k, first, cls) ==
    IF k > Len(r) THEN [ok |-> FALSE]
    ELSE IF r[k] = "]" /\ ~ first THEN [ok |-> TRUE, k |-> k + 1, cls |-> cls]
    ELSE IF r[k] = "\\" /\ k + 1 > Len(r) THEN [ok |-> FALSE]
    ELSE
        LET c1 == IF r[k] = "\\" THEN r[k + 1] ELSE r[k]
            k1 == IF r[k] = "\\" THEN k + 2 ELSE k + 1
        IN  IF k1 <= Len(r) /\ r[k1] = "-" THEN
                IF k1 + 1 > Len(r) THEN [ok |-> FALSE]
                ELSE IF r[k1 + 1] = "]" THEN
                    [ok |-> TRUE, k |-> k1 + 2,
                     cls |-> [cls EXCEPT !.lits = @ \cup {c1, "-"}]]
                ELSE IF r[k1 + 1] = "\\" /\ k1 + 2 > Len(r) THEN [ok |-> FALSE]
                ELSE
                    LET c2 == IF r[k1 + 1] = "\\" THEN r[k1 + 2] ELSE r[k1 + 1]
                        k2 == IF r[k1 + 1] = "\\" THEN k1 + 3 ELSE k1 + 2
                    IN  IF Ord(c2) < Ord(c1) THEN [ok |-> FALSE]
                        ELSE ClassItems(r, k2, FALSE,
                                 [cls EXCEPT !.ranges = @ \cup {<<c1, c2>>}])
            ELSE ClassItems(r, k1, FALSE, [cls EXCEPT !.lits = @ \cup {c1}])

\* the atom that starts at r[k] (not "(", ")" or "|"): what it accepts and
\* where it ends
ParseAtom(r, k) ==
    IF r[k] = "\\" THEN
        IF k + 1 > Len(r) THEN [ok |-> FALSE]
        ELSE [ok |-> TRUE, k |-> k + 2, kind |-> "lit", c |-> r[k + 1]]
    ELSE IF r[k] = "." THEN [ok |-> TRUE, k |-> k + 1, kind |-> "any"]
    ELSE IF r[k] = "^" THEN [ok |-> TRUE, k |-> k + 1, kind |-> "bol"]
    ELSE IF r[k] = "$" THEN [ok |-> TRUE, k |-> k + 1, kind |-> "eol"]
    ELSE IF r[k] = "[" THEN
        LET neg == k + 1 <= Len(r) /\ r[k + 1] = "^"
            res == ClassItems(r, IF neg THEN k + 2 ELSE k + 1, TRUE,
                              [lits |-> {}, ranges |-> {}])
        IN  IF ~ res.ok THEN [ok |-> FALSE]
            ELSE [ok |-> TRUE, k |-> res.k, kind |-> "set", neg |-> neg,
                  cls |-> res.cls]
    ELSE [ok |-> TRUE, k |-> k + 1, kind |-> "lit", c |-> r[k]]

\* whether the one-character atom accepts ch (names hold no newline)
AtomAccepts(atom, ch) ==
    CASE atom.kind = "lit" -> ch = atom.c
      [] atom.kind = "any" -> TRUE
      [] atom.kind = "set" ->
            LET in == \/ ch \in atom.cls.lits
                      \/ \E rg \in atom.cls.ranges :
                            Ord(rg[1]) <= Ord(ch) /\ Ord(ch) <= Ord(rg[2])
            IN  in # atom.neg

\* the positions reached from S by the atom, starred or not
AtomStep(atom, starred, S, name) ==
    CASE atom.kind = "bol" -> S \cap {0}
      [] atom.kind = "eol" -> S \cap {Len(name)}
      [] OTHER ->
            IF starred
            THEN {q \in 0..Len(name) :
                    \E p \in S : p <= q /\ \A j \in (p + 1)..q :
                                              AtomAccepts(atom, name[j])}
            ELSE {p + 1 : p \in {q \in S : q < Len(name)
                                          /\ AtomAccepts(atom, name[q + 1])}}

RECURSIVE ReAlt(_, _, _, _, _, _)
\* the alternation that started with the positions S0: cur are those of the
\* branch being read, acc those of the branches before it
ReAlt(r, k, S0, cur, acc, name) ==
    IF k > Len(r) THEN
        [ok |-> TRUE, k |-> k, set |-> acc \cup cur, closed |-> FALSE]
    ELSE IF r[k] = "|" THEN ReAlt(r, k + 1, S0, S0, acc \cup cur, name)
    ELSE IF r[k] = ")" THEN
        [ok |-> TRUE, k |-> k + 1, set |-> acc \cup cur, closed |-> TRUE]
    ELSE IF r[k] = "(" THEN
        LET sub == ReAlt(r, k + 1, cur, cur, {}, name)
        IN  IF ~ sub.ok \/ ~ sub.closed THEN ReError
            ELSE ReAlt(r, sub.k, S0, sub.set, acc, name)
    ELSE
        LET atom == ParseAtom(r, k)
        IN  IF ~ atom.ok THEN ReError
            ELSE LET starred == atom.k <= Len(r) /\ r[atom.k] = "*"
                 IN  ReAlt(r, IF starred THEN atom.k + 1 ELSE atom.k, S0,
                           AtomStep(atom, starred, cur, name), acc, name)

\* re.compile(r) does not raise
re_compiles(r) ==
    LET res == ReAlt(r, 1, {0}, {0}, {}, <<>>) IN res.ok /\ ~ res.closed

\* re.compile(r).match(name) is not None (a regex that does not compile
\* matches nothing: re.compile raises)
re_match(r, name) ==
    LET res == ReAlt(r, 1, {0}, {0}, {}, name)
    IN  res.ok /\ ~ res.closed /\ res.set # {}

(***************************************************************************)
(* The compile specification: a pattern is validated, tokenized and        *)
(* compiled.                                                               *)
(***************************************************************************)
\* the variables of the other specifications, at rest
GlobIdle ==
    /\ glob_components = <<>> /\ index = 0 /\ globstar = None
    /\ prefix_literals = <<>> /\ suffix_literals = <<>>
    /\ metric_names = <<>> /\ consumed = 0 /\ out = <<>>

\* valid holds a result once pc has left "start"
CompileIdle == valid = FALSE /\ tokens = <<>> /\ regex = <<>>

ApiIdle ==
    /\ api = None /\ lock = None /\ tpc = <<>> /\ ret = <<>> /\ reads = <<>>
    /\ init_calls = 0

Init ==
    /\ pc = "start"
    /\ pattern \in StringsUpTo(GlobChars, MaxLen)
    /\ CompileIdle /\ GlobIdle /\ ApiIdle

CallIsValidGlob ==
    /\ pc = "start"
    /\ valid' = _is_valid_glob(pattern)
    /\ pc' = "validated"
    /\ UNCHANGED <<pattern, tokens, regex, globVars, apiVars>>

CallTokenize ==
    /\ pc = "validated"
    /\ tokens' = tokenize(pattern)
    /\ pc' = "tokenized"
    /\ UNCHANGED <<pattern, valid, regex, globVars, apiVars>>

CallGlobToRegex ==
    /\ pc = "tokenized"
    /\ regex' = glob_to_regex(pattern)
    /\ pc' = "compiled"
    /\ UNCHANGED <<pattern, valid, tokens, globVars, apiVars>>

Next == CallIsValidGlob \/ CallTokenize \/ CallGlobToRegex

Spec == Init /\ [][Next]_vars

(***************************************************************************)
(* glob(metric_names, glob_pattern): the prefilter.  The loop over the     *)
(* components and the lazy filter over the candidates are taken one        *)
(* iteration at a time.                                                    *)
(***************************************************************************)
\* the pieces patterns of the prefilter specification are joined from with
\* ".": literals, wildcards, a negated set and a literal with an escaped dot
GlobPieces == {<<"a">>, <<"b">>, <<"*">>, <<"*", "*">>, <<"?">>,
               <<"[", "!", "a", "]">>, <<"a", "\\", ".", "b">>}

\* the components candidate names are joined from
NamePieces == {<<"a">>, <<"b">>}

JoinedUpTo(pieces, n) == {Join(cs) : cs \in UNION {[1..k -> pieces] : k \in 1..n}}

RECURSIVE SetToSeq(_)
\* a list holding every element of S once
SetToSeq(S) ==
    IF S = {} THEN <<>>
    ELSE LET x == CHOOSE y \in S : TRUE IN <<x>> \o SetToSeq(S \ {x})

\* the candidate lists: every name of at most n components, for each n
CandidateLists == {SetToSeq(JoinedUpTo(NamePieces, n)) : n \in 1..MaxNameComponents}

\* Python's truth value of globstar: None and 0 are false
Truthy(x) == x # None /\ x # <<0>>

GLOBSTAR == <<"*", "*">>

InitGlob ==
    /\ pc = "glob"
    /\ pattern \in JoinedUpTo(GlobPieces, MaxComponents)
    /\ metric_names \in CandidateLists
    /\ glob_components = <<>> /\ index = 0 /\ globstar = None
    /\ prefix_literals = <<>> /\ suffix_literals = <<>>
    /\ consumed = 0 /\ out = <<>>
    /\ CompileIdle /\ ApiIdle

\* lines 215-219: split the pattern, initialise the locals
GlobSplit ==
    /\ pc = "glob"
    /\ glob_components' = Split(pattern)
    /\ globstar' = None
    /\ prefix_literals' = <<>>
    /\ suffix_literals' = <<>>
    /\ index' = 0
    /\ pc' = "scan"
    /\ UNCHANGED <<pattern, metric_names, consumed, out, compileVars, apiVars>>

\* a faulty variant: only the first "**" is recorded
GlobstarKeepFirst(old, idx) == IF old = None THEN <<idx>> ELSE old

\* line 222: "globstar = index"
GlobstarAssign(old, idx) == <<idx>>

\* line 221-222: the component is "**"
ScanGlobstar ==
    /\ pc = "scan" /\ index < Len(glob_components)
    /\ glob_components[index + 1] = GLOBSTAR
    /\ globstar' = GlobstarAssign(globstar, index)
    /\ index' = index + 1
    /\ UNCHANGED <<pc, pattern, glob_components, prefix_literals,
                   suffix_literals, metric_names, consumed, out,
                   compileVars, apiVars>>

\* line 223-225: "elif globstar:"
ScanSuffix ==
    /\ pc = "scan" /\ index < Len(glob_components)
    /\ glob_components[index + 1] # GLOBSTAR
    /\ Truthy(globstar)
    /\ suffix_literals' = Append(suffix_literals,
            <<Len(glob_components) - index, glob_components[index + 1]>>)
    /\ index' = index + 1
    /\ UNCHANGED <<pc, pattern, glob_components, globstar, prefix_literals,
                   metric_names, consumed, out, compileVars, apiVars>>

\* line 226-227: "elif not _is_graphite_glob(component):"
ScanPrefix ==
    /\ pc = "scan" /\ index < Len(glob_components)
    /\ glob_components[index + 1] # GLOBSTAR
    /\ ~ Truthy(globstar)
    /\ ~ _is_graphite_glob(glob_components[index + 1])
    /\ prefix_literals' = Append(prefix_literals,
            <<index, glob_components[index + 1]>>)
    /\ index' = index + 1
    /\ UNCHANGED <<pc, pattern, glob_components, globstar, suffix_literals,
                   metric_names, consumed, out, compileVars, apiVars>>

\* no branch is taken: a glob component before any truthy globstar
ScanSkip ==
    /\ pc = "scan" /\ index < Len(glob_components)
    /\ glob_components[index + 1] # GLOBSTAR
    /\ ~ Truthy(globstar)
    /\ _is_graphite_glob(glob_components[index + 1])
    /\ index' = index + 1
    /\ UNCHANGED <<pc, pattern, glob_components, globstar, prefix_literals,
                   suffix_literals, metric_names, consumed, out,
                   compileVars, apiVars>>

\* the loop is over: glob() returns the (lazy) filter
ScanDone ==
    /\ pc = "scan" /\ index = Len(glob_components)
    /\ pc' = "filter"
    /\ UNCHANGED <<pattern, globVars, compileVars, apiVars>>

\* lines 231-235: the check of the number of components
CountCheck(metric_components) ==
    IF Truthy(globstar)
    THEN ~ (Len(metric_components) < Len(glob_components))
    ELSE ~ (Len(metric_components) # Len(glob_components))

\* line 238: "metric_components[index] != value" is false
LiteralEqual(metric_components, entry) ==
    metric_components[entry[1] + 1] = entry[2]

\* lines 237-239: the loop over chain(suffix_literals, prefix_literals)
LiteralsCheck(metric_components) ==
    LET chain == suffix_literals \o prefix_literals
    IN  \A k \in 1..Len(chain) : LiteralEqual(metric_components, chain[k])

\* lines 229-241
maybe_matched_prefilter(metric) ==
    LET metric_components == Split(metric)
    IN  CountCheck(metric_components) /\ LiteralsCheck(metric_components)

\* the filter reads one candidate and yields it
FilterYield ==
    /\ pc = "filter" /\ consumed < Len(metric_names)
    /\ maybe_matched_prefilter(metric_names[consumed + 1])
    /\ out' = Append(out, metric_names[consumed + 1])
    /\ consumed' = consumed + 1
    /\ UNCHANGED <<pc, pattern, glob_components, index, globstar,
                   prefix_literals, suffix_literals, metric_names,
                   compileVars, apiVars>>

\* the filter reads one candidate and drops it
FilterReject ==
    /\ pc = "filter" /\ consumed < Len(metric_names)
    /\ ~ maybe_matched_prefilter(metric_names[consumed + 1])
    /\ consumed' = consumed + 1
    /\ UNCHANGED <<pc, pattern, glob_components, index, globstar,
                   prefix_literals, suffix_literals, metric_names, out,
                   compileVars, apiVars>>

\* the candidates are exhausted
FilterDone ==
    /\ pc = "filter" /\ consumed = Len(metric_names)
    /\ pc' = "done"
    /\ UNCHANGED <<pattern, globVars, compileVars, apiVars>>

NextGlob ==
    \/ GlobSplit \/ ScanGlobstar \/ ScanSuffix \/ ScanPrefix \/ ScanSkip
    \/ ScanDone \/ FilterYield \/ FilterReject \/ FilterDone

SpecGlob == InitGlob /\ [][NextGlob]_vars

(***************************************************************************)
(* DataDogFinder: __init__ and the api property, read by several threads.  *)
(* A client is a number: 0 is the one handed to the constructor, n >= 1    *)
(* the one the n-th call of init_api returned.                             *)
(***************************************************************************)
Threads == 1..NumThreads

\* "self._api = kwargs.get('api', None)": the finder is made with or
\* without a client; the lock is free and no thread is reading
InitApi ==
    /\ pc = "api"
    /\ api \in {None, <<0>>}
    /\ lock = None
    /\ tpc = [t \in Threads |-> "idle"]
    /\ ret = [t \in Threads |-> None]
    /\ reads = [t \in Threads |-> 0]
    /\ init_calls = 0
    /\ pattern = <<>>
    /\ CompileIdle /\ GlobIdle

\* a faulty variant: the lock can be taken while it is held
LockFreeAlways(l) == TRUE

\* threading.Lock: acquire() goes through only when the lock is not held
LockFree(l) == l = None

\* a thread starts to read finder.api
ReadApi(t) ==
    /\ tpc[t] = "idle" /\ reads[t] < MaxReads
    /\ tpc' = [tpc EXCEPT ![t] = "acquire"]
    /\ UNCHANGED <<pc, pattern, compileVars, globVars, api, lock, ret, reads,
                   init_calls>>

\* "with self._lock:" entered
Acquire(t) ==
    /\ tpc[t] = "acquire"
    /\ LockFree(lock)
    /\ lock' = <<t>>
    /\ tpc' = [tpc EXCEPT ![t] = "check"]
    /\ UNCHANGED <<pc, pattern, compileVars, globVars, api, ret, reads,
                   init_calls>>

\* "if not self._api:" is true
CheckUnset(t) ==
    /\ tpc[t] = "check"
    /\ api = None
    /\ tpc' = [tpc EXCEPT ![t] = "init"]
    /\ UNCHANGED <<pc, pattern, compileVars, globVars, api, lock, ret, reads,
                   init_calls>>

\* "if not self._api:" is false
CheckSet(t) ==
    /\ tpc[t] = "check"
    /\ api # None
    /\ tpc' = [tpc EXCEPT ![t] = "release"]
    /\ UNCHANGED <<pc, pattern, compileVars, globVars, api, lock, ret, reads,
                   init_calls>>

\* "self._api = init_api(self._settings)"
InitCall(t) ==
    /\ tpc[t] = "init"
    /\ init_calls' = init_calls + 1
    /\ api' = <<init_calls + 1>>
    /\ tpc' = [tpc EXCEPT ![t] = "release"]
    /\ UNCHANGED <<pc, pattern, compileVars, globVars, lock, ret, reads>>

\* the with block is left: the lock is released
Release(t) ==
    /\ tpc[t] = "release"
    /\ lock' = None
    /\ tpc' = [tpc EXCEPT ![t] = "return"]
    /\ UNCHANGED <<pc, pattern, compileVars, globVars, api, ret, reads,
                   init_calls>>

\* "return self._api", read after the lock is released
Return(t) ==
    /\ tpc[t] = "return"
    /\ ret' = [ret EXCEPT ![t] = api]
    /\ reads' = [reads EXCEPT ![t] = @ + 1]
    /\ tpc' = [tpc EXCEPT ![t] = "idle"]
    /\ UNCHANGED <<pc, pattern, compileVars, globVars, api, lock, init_calls>>

NextApi ==
    \E t \in Threads :
        \/ ReadApi(t) \/ Acquire(t) \/ CheckUnset(t) \/ CheckSet(t)
        \/ InitCall(t) \/ Release(t) \/ Return(t)

SpecApi == InitApi /\ [][NextApi]_vars

(***************************************************************************)
(* The claims.                                                             *)
(***************************************************************************)
Range(f) == {f[k] : k \in DOMAIN f}

\* the names the compiled regex is run against in the compile specification
NameUniverse == StringsUpTo(NameChars, MaxNameLen)

\* characters that are plain in every context: none of . ? * [ ] { , } \
\* (a "-" outside a character set and "!" are plain)
PlainChars == GlobChars \ {".", "?", "*", "[", "]", "{", ",", "}", "\\"}

IsPlainLiteral(g) == \A k \in 1..Len(g) : g[k] \in PlainChars

\* "{" minus "}" among the first n raw characters of g
BraceDepth(g, n) ==
    Cardinality({k \in 1..n : g[k] = "{"}) - Cardinality({k \in 1..n : g[k] = "}"})

(* C1: prefilter soundness.  Once glob() has filtered the candidates, every
   candidate the regex glob_to_regex(pattern) matches is among the names the
   prefilter yielded. *)
C1_PrefilterSound ==
    pc = "done" =>
        \A k \in 1..Len(metric_names) :
            re_match(glob_to_regex(pattern), metric_names[k])
                => metric_names[k] \in Range(out)

(* C2: _is_valid_glob(p) is a boolean, and it is True exactly when the brace
   depth over the raw characters is never negative, no "." stands at a depth
   greater than 0, and the depth is 0 at the end. *)
C2_ValidIffBalanced ==
    pc # "start" =>
        /\ valid \in BOOLEAN
        /\ valid = (/\ \A n \in 0..Len(pattern) : BraceDepth(pattern, n) >= 0
                    /\ \A n \in 1..Len(pattern) :
                          pattern[n] = "." => ~ (BraceDepth(pattern, n) > 0)
                    /\ BraceDepth(pattern, Len(pattern)) = 0)

\* C2's case: a pattern with a closed group and a separator is found valid
C2_Witness ==
    /\ pc = "validated" /\ valid
    /\ \E k \in 1..Len(pattern) : pattern[k] = "{"
    /\ \E k \in 1..Len(pattern) : pattern[k] = "."

RECURSIVE EscapedFrom(_, _)
\* the 0-based positions of the characters of g that follow an escaping
\* backslash, scanning from g[k]
EscapedFrom(g, k) ==
    IF k > Len(g) THEN {}
    ELSE IF g[k] = "\\" THEN
        (IF k + 1 <= Len(g) THEN {k} ELSE {}) \cup EscapedFrom(g, k + 2)
    ELSE EscapedFrom(g, k + 1)

EscapedPositions(g) == EscapedFrom(g, 1)

(* C3: every backslash-escaped character of the pattern is carried by a
   LITERAL token, and that token comes before the token of every
   metacharacter that follows the escaped character in the pattern (so it is
   neither dropped at the end of input nor moved past a structural token). *)
C3_EscapedKeptInOrder ==
    pc \in {"tokenized", "compiled"} =>
        \A e \in EscapedPositions(pattern) :
            \E t \in 1..Len(tokens) :
                /\ tokens[t].type = LITERAL
                /\ \E j \in 1..Len(tokens[t].at) :
                      tokens[t].at[j] = e /\ tokens[t].data[j] = pattern[e + 1]
                /\ \A u \in 1..Len(tokens) :
                      (tokens[u].type # LITERAL /\ tokens[u].at[1] > e) => t < u

\* the 0-based indexes of the components of the pattern that are "**"
GlobstarIndexes ==
    {i \in 0..(Len(glob_components) - 1) : glob_components[i + 1] = GLOBSTAR}

SetMin(S) == CHOOSE x \in S : \A y \in S : x <= y

SetMax(S) == CHOOSE x \in S : \A y \in S : x >= y

(* C4: the component-count rule.  With no "**" component a candidate passes
   the count check only when it has as many components as the pattern; with
   a "**" component, at any index, it passes whenever it has at least as
   many. *)
C4_CountRule ==
    pc \in {"filter", "done"} =>
        \A k \in 1..Len(metric_names) :
            LET mc == Split(metric_names[k])
            IN  /\ GlobstarIndexes = {} =>
                      (CountCheck(mc) => Len(mc) = Len(glob_components))
                /\ GlobstarIndexes # {} =>
                      (Len(mc) >= Len(glob_components) => CountCheck(mc))

(* C5: suffix constraints.  A constraint recorded for a component after the
   globstar is recorded for a plain literal only, and it compares the
   literal with the candidate's component at the same distance from the end
   of the candidate as the literal is from the end of the pattern. *)
C5_SuffixFromEnd ==
    pc \in {"filter", "done"} =>
        \A j \in 1..Len(suffix_literals) :
            /\ ~ _is_graphite_glob(suffix_literals[j][2])
            /\ \A k \in 1..Len(metric_names) :
                  LET mc == Split(metric_names[k])
                  IN  CountCheck(mc) =>
                        (LiteralEqual(mc, suffix_literals[j])
                           <=> mc[Len(mc) - suffix_literals[j][1] + 1]
                                   = suffix_literals[j][2])

\* patterns built only from literal runs, "." and single "*"
IsStarFragment(g) ==
    /\ \A k \in 1..Len(g) : g[k] \in PlainChars \cup {".", "*"}
    /\ \A k \in 1..(Len(g) - 1) : ~ (g[k] = "*" /\ g[k + 1] = "*")

(* C6: a lone "*" matches zero or more characters none of which is the
   separator.  For a pattern of literal runs, "." and single "*", every name
   the compiled regex matches has as many components as the pattern; and for
   a pattern pre*post with literal pre and post, the regex matches exactly
   the names pre + mid + post whose mid holds no ".". *)
C6_StarStaysInComponent ==
    (pc = "compiled" /\ IsStarFragment(pattern)) =>
        /\ \A n \in NameUniverse :
              re_match(regex, n) => Len(Split(n)) = Len(Split(pattern))
        /\ \A s \in 1..Len(pattern) :
              (/\ pattern[s] = "*"
               /\ \A k \in 1..Len(pattern) : k # s => pattern[k] \in PlainChars)
              => \A n \in NameUniverse :
                    re_match(regex, n) <=>
                        /\ Len(n) >= Len(pattern) - 1
                        /\ SubSeq(n, 1, s - 1) = SubSeq(pattern, 1, s - 1)
                        /\ SubSeq(n, Len(n) - (Len(pattern) - s) + 1, Len(n))
                              = SubSeq(pattern, s + 1, Len(pattern))
                        /\ \A k \in s..(Len(n) - (Len(pattern) - s)) : n[k] # "."

\* C6's case: "a.*" is compiled; it matches "a.b" and "a." but not "a"
C6_Witness ==
    /\ pc = "compiled" /\ pattern = <<"a", ".", "*">>
    /\ re_match(regex, <<"a", ".", "b">>)
    /\ re_match(regex, <<"a", ".">>)
    /\ ~ re_match(regex, <<"a">>)

\* tokenize yielded exactly one LITERAL token carrying the whole pattern
OneLiteralToken ==
    /\ Len(tokens) = 1
    /\ tokens[1].type = LITERAL
    /\ tokens[1].data = pattern

\* the strings the regex of a plain literal pattern is run against
LiteralUniverse == NameUniverse \cup StringsUpTo(PlainChars, MaxLen + 1)

\* the compiled regex matches the pattern itself and no other string
MatchesOnlyItself ==
    /\ re_match(regex, pattern)
    /\ \A n \in LiteralUniverse : re_match(regex, n) => n = pattern

(* C7 as stated: for every plain literal pattern tokenize yields exactly one
   LITERAL token carrying the whole pattern, and the compiled regex matches
   exactly that string. *)
C7_LiteralOneToken ==
    (pc = "compiled" /\ IsPlainLiteral(pattern)) =>
        OneLiteralToken /\ MatchesOnlyItself

(* C7 as amended: for every non-empty plain literal pattern tokenize yields
   exactly one LITERAL token carrying the whole pattern, for the empty
   pattern it yields no token, and in both cases the compiled regex matches
   exactly that string. *)
C7_NonEmptyLiteralOneToken ==
    (pc = "compiled" /\ IsPlainLiteral(pattern)) =>
        /\ Len(pattern) >= 1 => OneLiteralToken
        /\ Len(pattern) = 0 => tokens = <<>>
        /\ MatchesOnlyItself

\* C7's case: the literal "a-b" is one token and its regex matches "a-b"
C7_Witness ==
    /\ pc = "compiled" /\ pattern = <<"a", "-", "b">>
    /\ OneLiteralToken
    /\ regex = <<"^", "a", "\\", "-", "b", "$">>

(* C8 as stated: after the scan of the components the recorded globstar is
   the index of the first "**" component. *)
C8_FirstGlobstar ==
    (pc \in {"filter", "done"} /\ GlobstarIndexes # {}) =>
        globstar = <<SetMin(GlobstarIndexes)>>

(* C8 as amended: after the scan of the components the recorded globstar is
   the index of the last "**" component (every "**" overwrites it), and
   None when the pattern has none. *)
C8_LastGlobstar ==
    pc \in {"filter", "done"} =>
        IF GlobstarIndexes = {} THEN globstar = None
        ELSE globstar = <<SetMax(GlobstarIndexes)>>

\* C8's case: a pattern with several "**" components has been scanned
C8_Witness ==
    /\ pc = "filter"
    /\ Cardinality(GlobstarIndexes) >= 2
    /\ globstar = <<SetMax(GlobstarIndexes)>>

\* EXPR_SELECT_BEGIN minus EXPR_SELECT_END among the first n tokens
GroupDepth(toks, n) ==
    Cardinality({k \in 1..n : toks[k].type = "EXPR_SELECT_BEGIN"})
      - Cardinality({k \in 1..n : toks[k].type = "EXPR_SELECT_END"})

\* "(" minus ")" among the first n characters of the regex
ParenDepth(r, n) ==
    Cardinality({k \in 1..n : r[k] = "("}) - Cardinality({k \in 1..n : r[k] = ")"})

(* C9: validator and tokenizer agree.  For a pattern _is_valid_glob accepts,
   the brace tokens of tokenize are balanced (no prefix closes more groups
   than it opens, all are closed at the end), no PATH_SEPARATOR token stands
   inside an open group, and the compiled regex has balanced parentheses. *)
C9_ValidGlobBalancedTokens ==
    (pc = "compiled" /\ valid) =>
        /\ \A n \in 0..Len(tokens) : GroupDepth(tokens, n) >= 0
        /\ GroupDepth(tokens, Len(tokens)) = 0
        /\ \A n \in 1..Len(tokens) :
              tokens[n].type = "PATH_SEPARATOR" => GroupDepth(tokens, n) = 0
        /\ \A n \in 0..Len(regex) : ParenDepth(regex, n) >= 0
        /\ ParenDepth(regex, Len(regex)) = 0

(* C10: single initialisation.  For a finder made without an api, init_api
   is called at most once, exactly once as soon as a read has completed,
   every completed read returned that one client, and a thread outside the
   with block does not hold the lock. *)
C10_SingleInit ==
    api # <<0>> =>
        /\ init_calls <= 1
        /\ (\E t \in Threads : reads[t] >= 1) => init_calls = 1
        /\ \A t \in Threads : reads[t] >= 1 => (ret[t] = <<1>> /\ ret[t] = api)
        /\ \A t \in Threads :
              tpc[t] \in {"idle", "acquire", "return"} => lock # <<t>>

\* C10's case: every thread has read the api of a finder made without one
C10_Witness ==
    /\ api # <<0>> /\ init_calls = 1
    /\ \A t \in Threads : reads[t] >= 1 /\ ret[t] = <<1>>

====
